---------------------------- MODULE Spec2Model ----------------------------
(***************************************************************************)
(* Model of the Vision2Lang orchestration layer: the lazily loaded BLIP    *)
(* model handles of src/src/inference.py, the speech synthesizer and the   *)
(* webcam capture of src/src/utils.py, and the three UI actions of         *)
(* src/src/app.py.  Every call runs on a thread; a thread's position in    *)
(* the code is its pc.  Library calls (from_pretrained, generate, gTTS,    *)
(* cv2) are opaque: each either returns or raises, nondeterministically.   *)
(***************************************************************************)
EXTENDS Naturals, FiniteSets, Sequences, TLC

(* ------------------------------ bounds -------------------------------- *)
NThreads == 2       \* threads of the host
MaxCalls == 3       \* calls made one after another (Spec)
MaxRequests == 2    \* requests made concurrently (ConcurrentSpec)

Threads == 1..NThreads

(* ------------------------------ values -------------------------------- *)
\* Python's None.  No program string of the model equals it.
None == "None"

\* A truthy question that is not a str (e.g. the integer 42).
NonStr == "<int 42>"

Questions == {None, "", "   ", "what is this?", NonStr}
ImageKinds == {None, "str", "ndarray", "Image", "int"}
SupportedKinds == {"str", "ndarray", "Image"}

\* Texts the models may decode: a non-empty caption/answer, or the empty string.
Generated == {"a cat", ""}
\* Texts handed to text_to_speech directly.
Texts == {None, "", "   ", "hello", NonStr}

AskSentinel == "Please ask a question about the image."
UploadMsg == "Please upload an image first."
EnterMsg == "Please enter a question."
CaptureFailedMsg == "Failed to capture webcam frame. Make sure your webcam is connected."

\* A model handle: the instance (id) and the device it was moved to.
NoneModel == [id |-> 0, dev |-> None]

\* text_to_speech's "no audio" result (Python None); paths are 1, 2, ...
NoPath == 0
NoResult == [text |-> None, audio |-> NoPath, frame |-> None]

ShellOps == {"generate_caption_with_audio", "answer_with_audio", "capture_and_caption"}
InferenceOps == {"caption_image", "answer_question"}
Ops == ShellOps \cup InferenceOps \cup {"text_to_speech", "capture_webcam_frame"}

(* ------------------------------ state --------------------------------- *)
VARIABLES
    caption_model, caption_processor, vqa_model, vqa_processor, device,
    cuda_available, mps_available,   \* what torch reports on this host
    caption_log, vqa_log,            \* times the "Loading BLIP ... model..." line was printed
    device_resolves,                 \* times get_device() was evaluated and device assigned
    instances,                       \* model instances built so far (identity of a handle)
    tempfiles,                       \* temporary .mp3 files allocated so far
    calls,                           \* calls started so far
    th                               \* per thread: position, arguments, locals, result

globals == <<caption_model, caption_processor, vqa_model, vqa_processor, device>>
env == <<cuda_available, mps_available>>
history == <<caption_log, vqa_log, device_resolves, instances>>
vars == <<globals, env, history, tempfiles, calls, th>>

IdleThread ==
    [pc |-> "idle", op |-> None, image |-> None, question |-> None, enable_tts |-> FALSE,
     handle |-> <<NoneModel, None, None>>, frame |-> None, text |-> None, cap |-> None,
     path |-> NoPath, ret |-> NoResult,
     exc |-> None, did |-> {}]

Init ==
    /\ caption_model = NoneModel
    /\ caption_processor = None
    /\ vqa_model = NoneModel
    /\ vqa_processor = None
    /\ device = None
    /\ cuda_available \in BOOLEAN
    /\ mps_available \in BOOLEAN
    /\ caption_log = 0
    /\ vqa_log = 0
    /\ device_resolves = 0
    /\ instances = 0
    /\ tempfiles = 0
    /\ calls = 0
    /\ th = [t \in Threads |-> IdleThread]

(* ----------------------------- helpers -------------------------------- *)
\* str.strip() on the strings of the model.
Strip(s) == IF s = "   " THEN "" ELSE s

\* Python truthiness of a question/text value.
Truthy(v) == v \notin {None, ""}

IsStr(v) == v \notin {None, NonStr}

\* type(x).__name__ of an image argument.
TypeName(image) == IF image = None THEN "NoneType" ELSE image

\* Mutant of UnsupportedMsg: the message without the type of the argument.
UnsupportedMsgUnnamed(image) == "Unsupported image type"

\* str(e) of the exceptions of the model.
UnsupportedMsg(image) == IF image = None THEN "Unsupported image type: <class 'NoneType'>"
                         ELSE "Unsupported image type: <class 'int'>"
StripAttrMsg == "'int' object has no attribute 'strip'"
LoadFailedMsg == "model load failed"
OpenFailedMsg == "cannot identify image file"
GenerateFailedMsg == "generation failed"
Exceptions == {UnsupportedMsg(None), UnsupportedMsg("int"), StripAttrMsg, LoadFailedMsg,
               OpenFailedMsg, GenerateFailedMsg}

\* f"❌ Error: {str(e)}"
ErrorMsg(e) ==
    CASE e = UnsupportedMsg(None) -> "Error: Unsupported image type: <class 'NoneType'>"
      [] e = UnsupportedMsg("int") -> "Error: Unsupported image type: <class 'int'>"
      [] e = StripAttrMsg -> "Error: 'int' object has no attribute 'strip'"
      [] e = LoadFailedMsg -> "Error: model load failed"
      [] e = OpenFailedMsg -> "Error: cannot identify image file"
      [] OTHER -> "Error: generation failed"

Set(t, r) == th' = [th EXCEPT ![t] = r]
Did(r, what) == [r EXCEPT !.did = @ \cup {what}]


(* ----------------- the `not x or x.strip() == ""` tests ---------------- *)
\* "blank": the test is true; "ok": it is false; "raise": x is truthy and has no strip().
NotOrBlank(v) ==
    IF ~Truthy(v) THEN "blank"
    ELSE IF ~IsStr(v) THEN "raise"
    ELSE IF Strip(v) = "" THEN "blank" ELSE "ok"

\* Mutants of the three tests: the .strip() forgotten, a whitespace-only value passes.
NotStripped(v) == IF ~Truthy(v) THEN "blank" ELSE IF ~IsStr(v) THEN "raise" ELSE "ok"
QuestionMissingNoStrip(q) == NotStripped(q)
QuestionBlankNoStrip(q) == NotStripped(q)
TextBlankNoStrip(text) == NotStripped(text)

\* app.py: `if not question or question.strip() == ""`
QuestionMissing(q) == NotOrBlank(q)
\* inference.py: `if not question or question.strip() == ""`
QuestionBlank(q) == NotOrBlank(q)
\* utils.py: `if not text or text.strip() == ""`
TextBlank(text) == NotOrBlank(text)

(* ----------------------------- get_device ----------------------------- *)
get_device ==
    IF cuda_available THEN "cuda" ELSE IF mps_available THEN "mps" ELSE "cpu"

(* -------------------- how a call hands back control ------------------- *)
\* A thread's call is over: it returned `ret` to the host.
Return(r, ret) == [r EXCEPT !.pc = "done", !.ret = ret]

\* An exception leaves the thread's outermost function.
Propagate(r, e) == [r EXCEPT !.pc = "done", !.exc = e]

\* The `except Exception as e` clause of the three UI actions.
ShellExcept(r, e) == Return(r, [text |-> ErrorMsg(e), audio |-> NoPath, frame |-> None])

\* An exception raised inside caption_image / answer_question: caught by the UI action's
\* try block when one called it, else propagated to the caller.
Raise(r, e) == IF r.op \in ShellOps THEN ShellExcept(r, e) ELSE Propagate(r, e)

\* caption_image / answer_question returns `text`.
InferenceReturn(r, text) ==
    IF r.op \in ShellOps THEN [r EXCEPT !.pc = "enable_tts", !.text = text]
    ELSE Return(r, [text |-> text, audio |-> NoPath, frame |-> None])

\* text_to_speech returns `audio` (a path or NoPath).
SpeechReturn(r, audio) ==
    IF r.op \in ShellOps THEN Return(r, [text |-> r.text, audio |-> audio, frame |-> r.frame])
    ELSE Return(r, [text |-> None, audio |-> audio, frame |-> None])

\* Mutant of CaptureReturn: capture_and_caption without its `if frame is None` test.
CaptureReturnUnchecked(r, frame) ==
    IF r.op = "capture_and_caption"
    THEN [r EXCEPT !.pc = "load_caption_model", !.frame = frame, !.image = frame]
    ELSE Return(r, [text |-> None, audio |-> NoPath, frame |-> frame])

\* capture_webcam_frame returns `frame` (an array or None); capture_and_caption then
\* tests `if frame is None`.
CaptureReturn(r, frame) ==
    IF r.op = "capture_and_caption"
    THEN IF frame = None
         THEN Return(r, [text |-> CaptureFailedMsg, audio |-> NoPath, frame |-> None])
         ELSE [r EXCEPT !.pc = "load_caption_model", !.frame = frame, !.image = frame]
    ELSE Return(r, [text |-> None, audio |-> NoPath, frame |-> frame])

(* ------------------------------- calls -------------------------------- *)
Idle(t) == th[t].pc = "idle"
AllIdle == \A t \in Threads : Idle(t)

Begin(t, op, pc, image, question, enable_tts, text) ==
    /\ Idle(t)
    /\ calls' = calls + 1
    /\ Set(t, [IdleThread EXCEPT !.pc = pc, !.op = op, !.image = image,
                                 !.question = question, !.enable_tts = enable_tts,
                                 !.text = text])
    /\ UNCHANGED <<globals, env, history, tempfiles>>

\* Mutant of CallCaptionImage: the image is normalized before the model is ensured.
CallCaptionImageNormalizesFirst(t) ==
    \E image \in ImageKinds :
        Begin(t, "caption_image", "prepare_image", image, None, FALSE, None)

CallCaptionImage(t) ==
    \E image \in ImageKinds :
        Begin(t, "caption_image", "load_caption_model", image, None, FALSE, None)

CallAnswerQuestion(t) ==
    \E image \in ImageKinds, question \in Questions :
        Begin(t, "answer_question", "answer_question", image, question, FALSE, None)

\* The requests of the concurrent specification: one supported and one unsupported
\* image, one blank and one real question.
RaceCaptionImage(t) ==
    \E image \in {"Image", "int"} :
        Begin(t, "caption_image", "load_caption_model", image, None, FALSE, None)

RaceAnswerQuestion(t) ==
    \E image \in {"Image", "int"}, question \in {"   ", "what is this?"} :
        Begin(t, "answer_question", "answer_question", image, question, FALSE, None)

CallGenerateCaptionWithAudio(t) ==
    \E image \in ImageKinds, enable_tts \in BOOLEAN :
        Begin(t, "generate_caption_with_audio", "generate_caption_with_audio",
              image, None, enable_tts, None)

CallAnswerWithAudio(t) ==
    \E image \in ImageKinds, question \in Questions, enable_tts \in BOOLEAN :
        Begin(t, "answer_with_audio", "answer_with_audio", image, question, enable_tts, None)

CallCaptureAndCaption(t) ==
    \E enable_tts \in BOOLEAN :
        Begin(t, "capture_and_caption", "capture_webcam_frame", None, None, enable_tts, None)

CallTextToSpeech(t) ==
    \E text \in Texts :
        Begin(t, "text_to_speech", "text_to_speech", None, None, FALSE, text)

CallCaptureWebcamFrame(t) ==
    Begin(t, "capture_webcam_frame", "capture_webcam_frame", None, None, FALSE, None)

\* The host takes the result (or the exception); the thread is free again.
Finish(t) ==
    /\ th[t].pc = "done"
    /\ Set(t, IdleThread)
    /\ UNCHANGED <<globals, env, history, tempfiles, calls>>

(* ------------------------ load_caption_model -------------------------- *)
\* Mutant of NeedsLoad: the guard forgotten, every call rebuilds the model.
NeedsLoadAlways(model) == TRUE

\* `if caption_model is None:` / `if vqa_model is None:`
NeedsLoad(model) == model = NoneModel

\* The instance from_pretrained(...).to(device) builds.
NewModel(dev) == [id |-> instances + 1, dev |-> dev]

\* the test and, when it holds, print("Loading BLIP captioning model...")
LoadCaptionModel(t) ==
    /\ th[t].pc = "load_caption_model"
    /\ IF NeedsLoad(caption_model)
       THEN /\ caption_log' = caption_log + 1
            /\ Set(t, Did(Did([th[t] EXCEPT !.pc = "caption_get_device"],
                               "load_caption_model"), "construction"))
       ELSE /\ caption_log' = caption_log
            /\ Set(t, Did([th[t] EXCEPT !.pc = "caption_return"], "load_caption_model"))
    /\ UNCHANGED <<globals, env, vqa_log, device_resolves, instances, tempfiles, calls>>

\* device = get_device()
CaptionGetDevice(t) ==
    /\ th[t].pc = "caption_get_device"
    /\ device' = get_device
    /\ device_resolves' = device_resolves + 1
    /\ Set(t, [th[t] EXCEPT !.pc = "caption_processor"])
    /\ UNCHANGED <<caption_model, caption_processor, vqa_model, vqa_processor, env,
                   caption_log, vqa_log, instances, tempfiles, calls>>

\* Mutant of CaptionProcessor: a failed load clears the processor global.
CaptionProcessorClears(t) ==
    /\ th[t].pc = "caption_processor"
    /\ \/ /\ caption_processor' = "BlipProcessor"
          /\ Set(t, [th[t] EXCEPT !.pc = "caption_model"])
       \/ /\ caption_processor' = None
          /\ Set(t, Raise(th[t], LoadFailedMsg))
    /\ UNCHANGED <<caption_model, vqa_model, vqa_processor, device, env, history,
                   tempfiles, calls>>

\* caption_processor = BlipProcessor.from_pretrained(...)
CaptionProcessor(t) ==
    /\ th[t].pc = "caption_processor"
    /\ \/ /\ caption_processor' = "BlipProcessor"
          /\ Set(t, [th[t] EXCEPT !.pc = "caption_model"])
       \/ /\ caption_processor' = caption_processor
          /\ Set(t, Raise(th[t], LoadFailedMsg))
    /\ UNCHANGED <<caption_model, vqa_model, vqa_processor, device, env, history,
                   tempfiles, calls>>

\* Mutant of CaptionModel: a failed load "cleans up" by clearing the global.
CaptionModelClears(t) ==
    /\ th[t].pc = "caption_model"
    /\ \/ /\ caption_model' = NewModel(device)
          /\ instances' = instances + 1
          /\ Set(t, [th[t] EXCEPT !.pc = "caption_return"])
       \/ /\ caption_model' = NoneModel
          /\ instances' = instances
          /\ Set(t, Raise(th[t], LoadFailedMsg))
    /\ UNCHANGED <<caption_processor, vqa_model, vqa_processor, device, env,
                   caption_log, vqa_log, device_resolves, tempfiles, calls>>

\* caption_model = BlipForConditionalGeneration.from_pretrained(...).to(device)
CaptionModel(t) ==
    /\ th[t].pc = "caption_model"
    /\ \/ /\ caption_model' = NewModel(device)
          /\ instances' = instances + 1
          /\ Set(t, [th[t] EXCEPT !.pc = "caption_return"])
       \/ /\ caption_model' = caption_model
          /\ instances' = instances
          /\ Set(t, Raise(th[t], LoadFailedMsg))
    /\ UNCHANGED <<caption_processor, vqa_model, vqa_processor, device, env,
                   caption_log, vqa_log, device_resolves, tempfiles, calls>>

\* return caption_model, caption_processor, device
CaptionReturn(t) ==
    /\ th[t].pc = "caption_return"
    /\ Set(t, [th[t] EXCEPT !.pc = "prepare_image",
                            !.handle = <<caption_model, caption_processor, device>>])
    /\ UNCHANGED <<globals, env, history, tempfiles, calls>>

(* -------------------------- load_vqa_model ---------------------------- *)
LoadVqaModel(t) ==
    /\ th[t].pc = "load_vqa_model"
    /\ IF NeedsLoad(vqa_model)
       THEN /\ vqa_log' = vqa_log + 1
            /\ Set(t, Did(Did([th[t] EXCEPT !.pc = "vqa_get_device"],
                               "load_vqa_model"), "construction"))
       ELSE /\ vqa_log' = vqa_log
            /\ Set(t, Did([th[t] EXCEPT !.pc = "vqa_return"], "load_vqa_model"))
    /\ UNCHANGED <<globals, env, caption_log, device_resolves, instances, tempfiles, calls>>

VqaGetDevice(t) ==
    /\ th[t].pc = "vqa_get_device"
    /\ device' = get_device
    /\ device_resolves' = device_resolves + 1
    /\ Set(t, [th[t] EXCEPT !.pc = "vqa_processor"])
    /\ UNCHANGED <<caption_model, caption_processor, vqa_model, vqa_processor, env,
                   caption_log, vqa_log, instances, tempfiles, calls>>

VqaProcessor(t) ==
    /\ th[t].pc = "vqa_processor"
    /\ \/ /\ vqa_processor' = "BlipProcessor"
          /\ Set(t, [th[t] EXCEPT !.pc = "vqa_model"])
       \/ /\ vqa_processor' = vqa_processor
          /\ Set(t, Raise(th[t], LoadFailedMsg))
    /\ UNCHANGED <<caption_model, caption_processor, vqa_model, device, env, history,
                   tempfiles, calls>>

VqaModel(t) ==
    /\ th[t].pc = "vqa_model"
    /\ \/ /\ vqa_model' = NewModel(device)
          /\ instances' = instances + 1
          /\ Set(t, [th[t] EXCEPT !.pc = "vqa_return"])
       \/ /\ vqa_model' = vqa_model
          /\ instances' = instances
          /\ Set(t, Raise(th[t], LoadFailedMsg))
    /\ UNCHANGED <<caption_model, caption_processor, vqa_processor, device, env,
                   caption_log, vqa_log, device_resolves, tempfiles, calls>>

VqaReturn(t) ==
    /\ th[t].pc = "vqa_return"
    /\ Set(t, [th[t] EXCEPT !.pc = "prepare_image",
                            !.handle = <<vqa_model, vqa_processor, device>>])
    /\ UNCHANGED <<globals, env, history, tempfiles, calls>>

(* ------------------ prepare_image, generation, decode ----------------- *)
\* prepare_image: the isinstance chain; Image.open / fromarray / convert may raise.
PrepareImage(t) ==
    /\ th[t].pc = "prepare_image"
    /\ LET r == Did(th[t], "prepare_image") IN
       IF th[t].image \in SupportedKinds
       THEN \/ Set(t, [r EXCEPT !.pc = "generate"])
            \/ Set(t, Raise(r, OpenFailedMsg))
       ELSE Set(t, Raise(r, UnsupportedMsg(th[t].image)))
    /\ UNCHANGED <<globals, env, history, tempfiles, calls>>

\* processor(...).to(dev); model.generate(...); processor.decode(...)
Generate(t) ==
    /\ th[t].pc = "generate"
    /\ LET r == Did(th[t], "generate") IN
       IF th[t].handle[1] = NoneModel \/ th[t].handle[2] = None \/ th[t].handle[3] = None
       THEN Set(t, Raise(r, GenerateFailedMsg))
       ELSE \/ \E text \in Generated : Set(t, InferenceReturn(r, text))
            \/ Set(t, Raise(r, GenerateFailedMsg))
    /\ UNCHANGED <<globals, env, history, tempfiles, calls>>

\* answer_question: the blank-question short-circuit.
AnswerQuestion(t) ==
    /\ th[t].pc = "answer_question"
    /\ LET r == Did(th[t], "answer_question")
           c == QuestionBlank(th[t].question) IN
       Set(t, IF c = "blank" THEN InferenceReturn(r, AskSentinel)
              ELSE IF c = "raise" THEN Raise(r, StripAttrMsg)
              ELSE [r EXCEPT !.pc = "load_vqa_model"])
    /\ UNCHANGED <<globals, env, history, tempfiles, calls>>

(* --------------------------- text_to_speech --------------------------- *)
\* Mutant of SpeechExcept: no except clause, the backend's exception leaves the function.
SpeechExceptMissing(r) == Propagate(r, "gTTS error")

\* `except Exception as e: ... return None`
SpeechExcept(r) == SpeechReturn(r, NoPath)

\* The blank test, inside the try: a value without strip() raises into `except`.
TextToSpeech(t) ==
    /\ th[t].pc = "text_to_speech"
    /\ LET r == Did(th[t], "text_to_speech") IN
       LET c == TextBlank(th[t].text) IN
       Set(t, IF c = "ok" THEN [r EXCEPT !.pc = "tts_tempfile"]
              ELSE IF c = "blank" THEN SpeechReturn(r, NoPath)
              ELSE SpeechExcept(r))
    /\ UNCHANGED <<globals, env, history, tempfiles, calls>>

\* The name tempfile.NamedTemporaryFile(delete=False, suffix='.mp3') hands out.
NewPath == tempfiles + 1

\* temp_audio = tempfile.NamedTemporaryFile(...); audio_path = temp_audio.name
TtsTempfile(t) ==
    /\ th[t].pc = "tts_tempfile"
    /\ \/ /\ tempfiles' = tempfiles + 1
          /\ Set(t, Did([th[t] EXCEPT !.pc = "tts_backend", !.path = NewPath], "tempfile"))
       \/ /\ tempfiles' = tempfiles
          /\ Set(t, SpeechExcept(Did(th[t], "tempfile raised")))
    /\ UNCHANGED <<globals, env, history, calls>>

\* tts = gTTS(...); tts.save(audio_path); return audio_path  -- or `except`: return None
TtsBackend(t) ==
    /\ th[t].pc = "tts_backend"
    /\ LET r == Did(th[t], "gTTS") IN
       \/ Set(t, SpeechReturn(r, th[t].path))
       \/ Set(t, SpeechExcept(Did(r, "gTTS raised")))
    /\ UNCHANGED <<globals, env, history, tempfiles, calls>>

(* ------------------------ capture_webcam_frame ------------------------ *)
\* cap = cv2.VideoCapture(0): the device is acquired, or not, or the call raises.
CaptureWebcamFrame(t) ==
    /\ th[t].pc = "capture_webcam_frame"
    /\ LET r == Did(th[t], "capture_webcam_frame") IN
       \/ Set(t, [r EXCEPT !.pc = "cap_isOpened", !.cap = "opened"])
       \/ Set(t, [r EXCEPT !.pc = "cap_isOpened", !.cap = "unopened"])
       \/ Set(t, CaptureReturn(Did(r, "VideoCapture raised"), None))
    /\ UNCHANGED <<globals, env, history, tempfiles, calls>>

\* if not cap.isOpened(): return None
CapIsOpened(t) ==
    /\ th[t].pc = "cap_isOpened"
    /\ Set(t, IF th[t].cap = "opened" THEN [th[t] EXCEPT !.pc = "cap_read"]
              ELSE CaptureReturn(Did(th[t], "not opened"), None))
    /\ UNCHANGED <<globals, env, history, tempfiles, calls>>

\* What cap.release() makes of the capture object.
Release(cap) == "released"

\* ret, frame = cap.read(); cap.release(); if ret: ... else: return None
\* A read that raises goes straight to `except`, past cap.release().
CapRead(t) ==
    /\ th[t].pc = "cap_read"
    /\ \/ Set(t, [th[t] EXCEPT !.pc = "cvtColor", !.cap = Release(@)])
       \/ Set(t, CaptureReturn(Did([th[t] EXCEPT !.cap = Release(@)], "read failed"), None))
       \/ Set(t, CaptureReturn(Did(th[t], "read raised"), None))
    /\ UNCHANGED <<globals, env, history, tempfiles, calls>>

\* frame_rgb = cv2.cvtColor(frame, cv2.COLOR_BGR2RGB); return frame_rgb
CvtColor(t) ==
    /\ th[t].pc = "cvtColor"
    /\ \/ Set(t, CaptureReturn(th[t], "ndarray"))
       \/ Set(t, CaptureReturn(Did(th[t], "cvtColor raised"), None))
    /\ UNCHANGED <<globals, env, history, tempfiles, calls>>

(* --------------------------- the UI actions --------------------------- *)
\* generate_caption_with_audio: `if image is None`, then caption_image(image) in the try.
GenerateCaptionWithAudio(t) ==
    /\ th[t].pc = "generate_caption_with_audio"
    /\ Set(t, IF th[t].image = None
              THEN Return(th[t], [text |-> UploadMsg, audio |-> NoPath, frame |-> None])
              ELSE [th[t] EXCEPT !.pc = "load_caption_model"])
    /\ UNCHANGED <<globals, env, history, tempfiles, calls>>

\* answer_with_audio: the two tests before the try, then answer_question in the try.
AnswerWithAudio(t) ==
    /\ th[t].pc = "answer_with_audio"
    /\ LET c == QuestionMissing(th[t].question) IN
       Set(t, IF th[t].image = None
              THEN Return(th[t], [text |-> UploadMsg, audio |-> NoPath, frame |-> None])
              ELSE IF c = "blank"
              THEN Return(th[t], [text |-> EnterMsg, audio |-> NoPath, frame |-> None])
              ELSE IF c = "raise"
              THEN Propagate(th[t], StripAttrMsg)
              ELSE [th[t] EXCEPT !.pc = "answer_question"])
    /\ UNCHANGED <<globals, env, history, tempfiles, calls>>

\* Mutant of EnableTts: the checkbox ignored, speech is always synthesized.
EnableTtsIgnored(t) ==
    /\ th[t].pc = "enable_tts"
    /\ Set(t, [th[t] EXCEPT !.pc = "text_to_speech"])
    /\ UNCHANGED <<globals, env, history, tempfiles, calls>>

\* audio_path = None; if enable_tts: audio_path = text_to_speech(text); return ...
EnableTts(t) ==
    /\ th[t].pc = "enable_tts"
    /\ Set(t, IF th[t].enable_tts
              THEN [th[t] EXCEPT !.pc = "text_to_speech"]
              ELSE Return(th[t], [text |-> th[t].text, audio |-> NoPath,
                                  frame |-> th[t].frame]))
    /\ UNCHANGED <<globals, env, history, tempfiles, calls>>

(* --------------------------- specifications --------------------------- *)
Load(t) ==
    \/ LoadCaptionModel(t) \/ CaptionGetDevice(t) \/ CaptionProcessor(t)
    \/ CaptionModel(t) \/ CaptionReturn(t)
    \/ LoadVqaModel(t) \/ VqaGetDevice(t) \/ VqaProcessor(t)
    \/ VqaModel(t) \/ VqaReturn(t)

Inference(t) ==
    \/ AnswerQuestion(t) \/ Load(t) \/ PrepareImage(t) \/ Generate(t)

Step(t) ==
    \/ Inference(t)
    \/ TextToSpeech(t) \/ TtsTempfile(t) \/ TtsBackend(t)
    \/ CaptureWebcamFrame(t) \/ CapIsOpened(t) \/ CapRead(t) \/ CvtColor(t)
    \/ GenerateCaptionWithAudio(t) \/ AnswerWithAudio(t) \/ EnableTts(t)
    \/ Finish(t)

Call(t) ==
    \/ CallCaptionImage(t) \/ CallAnswerQuestion(t)
    \/ CallGenerateCaptionWithAudio(t) \/ CallAnswerWithAudio(t)
    \/ CallCaptureAndCaption(t) \/ CallTextToSpeech(t) \/ CallCaptureWebcamFrame(t)

\* One request at a time: a call starts only when no other is running.
Next == \E t \in Threads : (AllIdle /\ calls < MaxCalls /\ Call(t)) \/ Step(t)

Spec == Init /\ [][Next]_vars

\* Concurrent caption_image and answer_question requests, interleaved statement by
\* statement with no lock.
ConcurrentNext ==
    \E t \in Threads :
        \/ (calls < MaxRequests /\ (RaceCaptionImage(t) \/ RaceAnswerQuestion(t)))
        \/ Inference(t)
        \/ Finish(t)

ConcurrentSpec == Init /\ [][ConcurrentNext]_vars

(* ------------------------------- claims ------------------------------- *)
Done(t) == th[t].pc = "done"
CaptionKind(t) == th[t].op \in {"caption_image", "generate_caption_with_audio",
                                "capture_and_caption"}
VqaKind(t) == th[t].op \in {"answer_question", "answer_with_audio"}
AfterLoad(t) == th[t].pc \in {"prepare_image", "generate"}

\* C1 as stated: in any sequence of calls, failing ones included, the construction
\* block of load_caption_model (its log line) runs at most once, and so does that of
\* load_vqa_model.
C1_BlockRunsOnce == caption_log <= 1 /\ vqa_log <= 1

\* C1, amended: in any sequence of calls, once a construction block has completed
\* (the model global is bound) no later call re-runs it or its log line or rebinds the
\* global, and every later load of that kind returns the handle already constructed.
\* A construction block that raised is run again by the next call of that kind.
C1_ConstructedOnce ==
    /\ [][/\ caption_model # NoneModel =>
                caption_model' = caption_model /\ caption_log' = caption_log
          /\ vqa_model # NoneModel =>
                vqa_model' = vqa_model /\ vqa_log' = vqa_log]_vars
    /\ [](\A t \in Threads :
            /\ AfterLoad(t) /\ CaptionKind(t) =>
                  th[t].handle[1] = caption_model /\ caption_model # NoneModel
            /\ AfterLoad(t) /\ VqaKind(t) =>
                  th[t].handle[1] = vqa_model /\ vqa_model # NoneModel)

\* A call that found the captioning handle already built after an earlier call's
\* construction had failed: two runs of the block, one handle, no construction now.
C1_Witness ==
    \E t \in Threads :
        /\ th[t].pc = "prepare_image" /\ th[t].op = "caption_image"
        /\ "load_caption_model" \in th[t].did /\ "construction" \notin th[t].did
        /\ caption_log = 2 /\ caption_model.id = 1
        /\ th[t].handle[1] = caption_model

\* C2: whenever capture_webcam_frame has returned, the capture object it opened has
\* been released.
C2_ReleasedOnReturn ==
    \A t \in Threads :
        th[t].pc \notin {"idle", "capture_webcam_frame", "cap_isOpened", "cap_read", "cvtColor"}
            => th[t].cap # "opened"

\* C3: a UI action that has returned propagated no exception, and its text result is a
\* string shown to the user.
UserVisible ==
    Generated \cup {AskSentinel, UploadMsg, EnterMsg, CaptureFailedMsg}
              \cup {ErrorMsg(e) : e \in Exceptions}

C3_NoPropagation ==
    \A t \in Threads :
        Done(t) /\ th[t].op \in ShellOps =>
            th[t].exc = None /\ th[t].ret.text \in UserVisible

\* What a call has run of the inference pipeline, and of speech synthesis.
InferenceWork == {"answer_question", "load_caption_model", "load_vqa_model", "construction",
                  "prepare_image", "generate"}
SpeechWork == {"text_to_speech", "tempfile", "tempfile raised", "gTTS", "gTTS raised"}

\* C4: answer_question with an empty or whitespace-only question returns the sentinel
\* 'Please ask a question about the image.' with no exception, having neither loaded
\* the VQA model nor normalized the image; no step of such a call changes vqa_model or
\* vqa_processor, whatever the image.
C4_BlankQuestion ==
    /\ [](\A t \in Threads :
            Done(t) /\ th[t].op = "answer_question" /\ th[t].question \in {"", "   "} =>
                /\ th[t].ret.text = AskSentinel
                /\ th[t].exc = None
                /\ th[t].did = {"answer_question"})
    /\ [][(\E t \in Threads :
              th[t].op = "answer_question" /\ th[t].question \in {"", "   "})
          => UNCHANGED <<vqa_model, vqa_processor>>]_vars

\* A whitespace-only question with an unsupported image, on a process whose VQA model
\* was never loaded: the sentinel came back.
C4_Witness ==
    \E t \in Threads :
        /\ Done(t) /\ th[t].op = "answer_question"
        /\ th[t].question = "   " /\ th[t].image = "int"
        /\ th[t].ret.text = AskSentinel /\ vqa_model = NoneModel

\* C5: text_to_speech with non-blank text raises nothing; when the backend succeeded it
\* returns the path of the temporary file this call allocated (the newest one), and
\* when temp-file allocation or the backend raised it returns None.
C5_SpeechNeverRaises ==
    \A t \in Threads :
        Done(t) /\ "text_to_speech" \in th[t].did /\ th[t].text \in {"hello", "a cat"} =>
            /\ th[t].exc = None
            /\ IF "gTTS" \in th[t].did /\ "gTTS raised" \notin th[t].did
               THEN /\ "tempfile" \in th[t].did
                    /\ th[t].ret.audio = tempfiles
                    /\ th[t].ret.audio # NoPath
               ELSE /\ th[t].ret.audio = NoPath
                    /\ {"tempfile raised", "gTTS raised"} \cap th[t].did # {}

\* The backend raised after the temporary file was allocated: None came back.
C5_Witness ==
    \E t \in Threads :
        /\ Done(t) /\ th[t].op = "text_to_speech" /\ th[t].text = "hello"
        /\ "gTTS raised" \in th[t].did /\ th[t].ret.audio = NoPath
        /\ tempfiles = 2

\* C6: text_to_speech with None, empty or whitespace-only text returns None without
\* allocating a temporary file and without invoking the backend.
C6_BlankText ==
    \A t \in Threads :
        Done(t) /\ "text_to_speech" \in th[t].did /\ th[t].text \in {None, "", "   "} =>
            /\ th[t].ret.audio = NoPath
            /\ th[t].exc = None
            /\ th[t].did \cap SpeechWork = {"text_to_speech"}

\* A whitespace-only text, after an earlier call had allocated a file: no new file.
C6_Witness ==
    \E t \in Threads :
        /\ Done(t) /\ th[t].op = "text_to_speech" /\ th[t].text = "   "
        /\ th[t].ret.audio = NoPath /\ tempfiles = 1

\* C7: when the camera cannot be opened or the read fails, capture_webcam_frame returns
\* None without raising, and capture_and_caption returns (None, capture-failed message,
\* None) without running the caption engine or the speech synthesizer.
CaptureFailures == {"VideoCapture raised", "not opened", "read failed", "read raised"}

C7_CaptureFailed ==
    \A t \in Threads :
        Done(t) /\ th[t].did \cap CaptureFailures # {} =>
            /\ th[t].exc = None
            /\ th[t].ret.frame = None
            /\ th[t].ret.audio = NoPath
            /\ th[t].op = "capture_and_caption" =>
                  /\ th[t].ret.text = CaptureFailedMsg
                  /\ th[t].did \cap (InferenceWork \cup SpeechWork) = {}

\* No camera attached: the capture action came back with the capture-failed message.
C7_Witness ==
    \E t \in Threads :
        /\ Done(t) /\ th[t].op = "capture_and_caption" /\ th[t].enable_tts
        /\ "not opened" \in th[t].did
        /\ th[t].ret = [text |-> CaptureFailedMsg, audio |-> NoPath, frame |-> None]

\* The requests inside the construction block of each loader.
CaptionConstructing ==
    {t \in Threads : th[t].pc \in {"caption_get_device", "caption_processor", "caption_model"}}
VqaConstructing ==
    {t \in Threads : th[t].pc \in {"vqa_get_device", "vqa_processor", "vqa_model"}}

\* C8 as stated: under any interleaving, a model global that is non-null is never
\* reset to null and never rebound to another instance.
C8_NeverRebound ==
    [][/\ caption_model # NoneModel => caption_model' = caption_model
       /\ vqa_model # NoneModel => vqa_model' = vqa_model]_vars

\* C8, amended: under any interleaving, a model global that is non-null is never reset
\* to null, and no request enters its construction block any more; it is rebound to
\* another instance only by a request that was already inside the construction block
\* (it had found the global null), which then leaves the block.
C8_NeverResetLateRebindOnly ==
    [][/\ caption_model # NoneModel =>
             /\ caption_model' # NoneModel
             /\ CaptionConstructing' \subseteq CaptionConstructing
             /\ caption_model' # caption_model =>
                   /\ caption_model'.id > caption_model.id
                   /\ \E t \in CaptionConstructing : t \notin CaptionConstructing'
       /\ vqa_model # NoneModel =>
             /\ vqa_model' # NoneModel
             /\ VqaConstructing' \subseteq VqaConstructing
             /\ vqa_model' # vqa_model =>
                   /\ vqa_model'.id > vqa_model.id
                   /\ \E t \in VqaConstructing : t \notin VqaConstructing']_vars

\* Two racing first-use caption requests both built a model: the global holds the
\* second instance, the first was overwritten.
C8_Witness ==
    /\ caption_model.id = 2
    /\ vqa_model = NoneModel
    /\ CaptionConstructing = {}

\* C9: get_device is evaluated (and the global device assigned) at most once per
\* process, and both model handles are bound to that one value.
C9_ResolvedOnce ==
    /\ device_resolves <= 1
    /\ caption_model # NoneModel /\ vqa_model # NoneModel =>
          caption_model.dev = vqa_model.dev /\ caption_model.dev = device

\* C10: generate_caption_with_audio and answer_with_audio with image None return
\* ('Please upload an image first.', None); answer_with_audio with an image and an empty
\* or whitespace-only question returns ('Please enter a question.', None); in these cases
\* nothing raises and no inference, model construction or speech synthesis has run.
C10_Guidance ==
    \A t \in Threads :
        Done(t) =>
            /\ th[t].op \in {"generate_caption_with_audio", "answer_with_audio"}
               /\ th[t].image = None =>
                  /\ th[t].ret = [text |-> UploadMsg, audio |-> NoPath, frame |-> None]
                  /\ th[t].exc = None
                  /\ th[t].did = {}
            /\ th[t].op = "answer_with_audio" /\ th[t].image # None
               /\ th[t].question \in {"", "   "} =>
                  /\ th[t].ret = [text |-> EnterMsg, audio |-> NoPath, frame |-> None]
                  /\ th[t].exc = None
                  /\ th[t].did = {}

\* An image with a whitespace-only question and speech enabled: the guidance message.
C10_Witness ==
    \E t \in Threads :
        /\ Done(t) /\ th[t].op = "answer_with_audio" /\ th[t].enable_tts
        /\ th[t].image = "Image" /\ th[t].question = "   "
        /\ th[t].ret.text = EnterMsg

\* C11: prepare_image given something that is neither a path string, a numpy array nor
\* a PIL image raises an error whose message names the type of the argument;
\* caption_image and answer_question propagate it to their caller and return no text.
C11_UnsupportedNamed ==
    \A t \in Threads :
        /\ Done(t) /\ th[t].op \in InferenceOps
        /\ "prepare_image" \in th[t].did
        /\ th[t].image \notin {"str", "ndarray", "Image"}
        => /\ th[t].exc = (IF th[t].image = "int"
                           THEN "Unsupported image type: <class 'int'>"
                           ELSE "Unsupported image type: <class 'NoneType'>")
           /\ th[t].ret = NoResult
           /\ "generate" \notin th[t].did

\* answer_question with a real question and an integer for an image: the error naming
\* int reached the caller.
C11_Witness ==
    \E t \in Threads :
        /\ Done(t) /\ th[t].op = "answer_question"
        /\ th[t].question = "what is this?" /\ th[t].image = "int"
        /\ th[t].exc = "Unsupported image type: <class 'int'>"

\* C12: in each UI action whose inference returned a text T: with speech disabled the
\* synthesizer is not invoked and audio is None; with speech enabled and no audio
\* produced (blank text, temp-file or backend failure) audio is None; in both cases the
\* action returns T unchanged (and capture_and_caption the captured frame).  The
\* synthesizer is invoked only after inference has returned its text, and a call that
\* has invoked it never reaches its entry again.
C12_BestEffortAudio ==
    /\ [](\A t \in Threads :
            th[t].op \in ShellOps =>
              /\ Done(t) /\ th[t].text # None =>
                    /\ th[t].exc = None
                    /\ th[t].ret.text = th[t].text
                    /\ th[t].ret.frame = th[t].frame
                    /\ th[t].op = "capture_and_caption" => th[t].ret.frame = "ndarray"
                    /\ ~th[t].enable_tts =>
                          th[t].ret.audio = NoPath /\ th[t].did \cap SpeechWork = {}
                    /\ th[t].enable_tts
                       /\ (\/ th[t].text \in {"", "   "}
                           \/ {"tempfile raised", "gTTS raised"} \cap th[t].did # {}) =>
                          th[t].ret.audio = NoPath /\ "text_to_speech" \in th[t].did
              /\ th[t].pc = "text_to_speech" \/ th[t].did \cap SpeechWork # {} =>
                    /\ th[t].text \in {"a cat", ""}
                    /\ "generate" \in th[t].did
                    /\ th[t].enable_tts)
    /\ [][\A t \in Threads :
            "text_to_speech" \in th[t].did => th'[t].pc # "text_to_speech"]_vars

\* Capture and describe with speech enabled and a failing backend: the caption and the
\* frame came back, without audio.
C12_Witness ==
    \E t \in Threads :
        /\ Done(t) /\ th[t].op = "capture_and_caption" /\ th[t].enable_tts
        /\ "gTTS raised" \in th[t].did
        /\ th[t].ret = [text |-> "a cat", audio |-> NoPath, frame |-> "ndarray"]

\* C13: under any interleaving of concurrent first-use requests, a non-null
\* caption_model comes with a non-null caption_processor and device (likewise for the
\* VQA globals), and every load_caption_model / load_vqa_model call that has returned
\* handed its caller a model, a processor and a device that are all non-null, the
\* model being bound to that device, duplicate initialization included.
C13_FullTriple ==
    /\ caption_model # NoneModel => caption_processor # None /\ device # None
    /\ vqa_model # NoneModel => vqa_processor # None /\ device # None
    /\ \A t \in Threads :
          AfterLoad(t) =>
              /\ th[t].handle[1] # NoneModel
              /\ th[t].handle[2] # None
              /\ th[t].handle[3] # None
              /\ th[t].handle[1].dev = th[t].handle[3]

\* Duplicate initialization: one request holds the first captioning instance, complete,
\* while the global already holds the second.
C13_Witness ==
    \E t \in Threads :
        /\ AfterLoad(t) /\ th[t].op = "caption_image"
        /\ th[t].handle[1].id = 1 /\ th[t].handle[2] # None /\ th[t].handle[3] # None
        /\ caption_model.id = 2 /\ caption_log = 2

\* The model global of the kind of request thread t makes.
ModelOf(t) == IF CaptionKind(t) THEN caption_model ELSE vqa_model

\* C14: caption_image and answer_question (real question) ensure the model handle
\* before they normalize the image: prepare_image runs only after the loader has
\* returned a built model; a call with an unsupported image whose construction fails
\* reports the construction failure and never reaches prepare_image; otherwise it
\* reports the unsupported-image error and leaves the model handle loaded.
C14_LoadBeforeNormalize ==
    \A t \in Threads :
        /\ "prepare_image" \in th[t].did =>
              /\ ModelOf(t) # NoneModel
              /\ th[t].handle[1] = ModelOf(t)
              /\ {"load_caption_model", "load_vqa_model"} \cap th[t].did # {}
        /\ /\ Done(t) /\ th[t].op \in InferenceOps
           /\ th[t].image \in {None, "int"}
           /\ th[t].op = "answer_question" => th[t].question = "what is this?"
           => IF "construction" \in th[t].did /\ ModelOf(t) = NoneModel
              THEN th[t].exc = "model load failed" /\ "prepare_image" \notin th[t].did
              ELSE /\ th[t].exc \in {"Unsupported image type: <class 'int'>",
                                     "Unsupported image type: <class 'NoneType'>"}
                   /\ "prepare_image" \in th[t].did
                   /\ ModelOf(t) # NoneModel

\* The first call of a process, caption_image with an integer: the model was built,
\* then prepare_image failed, and the handle is still loaded.
C14_Witness ==
    \E t \in Threads :
        /\ Done(t) /\ th[t].op = "caption_image" /\ th[t].image = "int"
        /\ calls = 1 /\ "construction" \in th[t].did
        /\ th[t].exc = "Unsupported image type: <class 'int'>"
        /\ caption_model.id = 1

=============================================================================
